---------------------------- MODULE Spec2Model ----------------------------
(***************************************************************************)
(* TASA synchronization engine (src/src/db_act.py, src/src/prog.py):       *)
(* the project store (RunLog, three environments with a main table and     *)
(* five related tables each), schema creation, environment copy, pull      *)
(* (remote -> local) and push (local -> remote).                           *)
(*                                                                         *)
(* A nullable SQL value is modelled as a sequence: <<>> is NULL and <<v>>  *)
(* is the value v.  A TEXT timestamp is the sequence of its digits, so     *)
(* that SQLite's TEXT comparison is a lexicographic comparison.            *)
(***************************************************************************)
EXTENDS Integers, Sequences, FiniteSets, TLC

(* ------------------------------ bounds -------------------------------- *)
\* number of top-level operations (create_db, copy_table, get_arva_records,
\* process_records) invoked in one behaviour
MaxOps == 4
\* the wall clock runs from 0 to MaxClock seconds
MaxClock == 1

(* ------------------------------ domains ------------------------------- *)
Envs == {"dev", "test", "prod"}
Kinds == {"arva_institution", "arva_legal_act", "arva_page_contact",
          "arva_related_pages", "arva_service"}
\* environments the enumerated pulls and pushes are invoked on
PullEnvs == {"dev"}
PushEnvs == {"dev", "test"}
\* lists of identifiers handed to one pull
IdLists == {<<1>>, <<1, 2>>, <<1, 1>>}
\* ids the remote may assign to a created page
PageIds == {0, 5, 6}

Null == <<>>
Some(v) == <<v>>
IsNull(x) == x = <<>>
Val(x) == x[1]

(* --------------------------- timestamps -------------------------------- *)
\* datetime('now') of SQLite: the clock as fixed-width TEXT (two digits here)
Fmt(n) == <<n \div 10, n % 10>>
\* datetime.strptime(text, "%Y-%m-%d %H:%M:%S"): the TEXT back as a time
Parse(t) == t[1] * 10 + t[2]
\* SQLite's comparison of two TEXT values (memcmp): a > b
RECURSIVE TextGT(_, _)
TextGT(a, b) ==
    IF a = <<>> THEN FALSE
    ELSE IF b = <<>> THEN TRUE
    ELSE IF a[1] # b[1] THEN a[1] > b[1]
    ELSE TextGT(Tail(a), Tail(b))

(* ------------------------------- tags ---------------------------------- *)
\* ";".join(titles): a string is the sequence of its characters
RECURSIVE Join(_)
Join(titles) ==
    IF titles = <<>> THEN <<>>
    ELSE IF Len(titles) = 1 THEN titles[1]
    ELSE titles[1] \o <<";">> \o Join(Tail(titles))

\* str.split(";"): always at least one (possibly empty) piece
RECURSIVE SplitFrom(_, _)
SplitFrom(s, cur) ==
    IF s = <<>> THEN <<cur>>
    ELSE IF s[1] = ";" THEN <<cur>> \o SplitFrom(Tail(s), <<>>)
    ELSE SplitFrom(Tail(s), Append(cur, s[1]))

Split(s) == SplitFrom(s, <<>>)

(* --------------------------- remote content ---------------------------- *)
\* page payloads the remote read query may return for an identifier
\* (data.pages.single without its id); tag titles are strings
PageVariants ==
    { [locale |-> "en", title |-> "t1", tags |-> << <<"x">>, <<"y">> >>,
       path |-> "/a", content |-> "c1"],
      [locale |-> "en", title |-> "t2", tags |-> << >>,
       path |-> "/a", content |-> "c2"],
      [locale |-> "et", title |-> "t1", tags |-> << <<"x">> >>,
       path |-> "/b", content |-> "c1"] }

NoPage == [locale |-> "", title |-> "", tags |-> << >>, path |-> "", content |-> ""]

\* the five related collections the remote read query may return
EmptyRel == [k \in Kinds |-> << >>]
FullRel ==
    [k \in Kinds |->
        CASE k = "arva_institution" ->
               << [id |-> 11, name |-> "n1", url |-> "u1", isResponsible |-> Some(TRUE)],
                  [id |-> 12, name |-> "n2", url |-> "u2", isResponsible |-> Null] >>
          [] k = "arva_legal_act" ->
               << [id |-> 21, title |-> "l1", url |-> "u1", legalActType |-> "a",
                   globalId |-> 7, groupId |-> 8, versionStartDate |-> "d"] >>
          [] k = "arva_page_contact" ->
               << [id |-> 31, contactId |-> Some(71), role |-> "r", firstName |-> "f",
                   lastName |-> "l", company |-> "co", email |-> "e",
                   countryCode |-> "cc", nationalNumber |-> "nn"] >>
          [] k = "arva_related_pages" ->
               << [id |-> 41, title |-> "p1", locale |-> "en"] >>
          [] OTHER -> << >> ]


(* ------------------------------- state --------------------------------- *)
VARIABLES
    lastRunTable, \* the last_run table exists in the store
    schema,       \* the staging, environment and related tables and triggers exist
    runlog,       \* rows of last_run, in insertion order
    main,         \* main[e]: the committed rows of {project}_{e}, keyed by article_id
    rel,          \* rel[e][k]: the committed rows of {project}_{e}_{k}, in insertion order
    now,          \* the wall clock, in seconds
    pull,         \* the running get_arva_records call
    push,         \* the running process_records call and its open transaction
    muts,         \* mutations sent to the remote by the current or last push scan
    msgs,         \* messages emitted by the current or last operation
    last,         \* the current or last top-level operation, its arguments, and
                  \* whether the store connection it opened has been closed
    nops          \* number of top-level operations invoked so far

vars == <<lastRunTable, schema, runlog, main, rel, now, pull, push, muts, msgs,
          last, nops>>

store == <<lastRunTable, schema, runlog, main, rel>>

\* a message handed to the caller's callback, or printed (the default sink)
Msg(sink, kind, id, text) == [sink |-> sink, kind |-> kind, id |-> id, text |-> text]

EmptyTable == [i \in {} |-> {}]
EmptyMain == [e \in Envs |-> EmptyTable]
EmptyRelTables == [e \in Envs |-> [k \in Kinds |-> << >>]]

IdlePull == [pc |-> "idle", env |-> "dev", ids |-> << >>, idx |-> 1,
             done |-> << >>, prev |-> Null, twice |-> FALSE]
IdlePush == [pc |-> "idle", env |-> "dev", rows |-> << >>, idx |-> 1,
             scanned |-> FALSE, committed |-> FALSE, tx |-> EmptyTable]
NoOp == [op |-> "none", env |-> "", src |-> "", ok |-> FALSE, closed |-> TRUE]

Init ==
    /\ lastRunTable = FALSE
    /\ schema = FALSE
    /\ runlog = << >>
    /\ main = EmptyMain
    /\ rel = EmptyRelTables
    /\ now = 0
    /\ pull = IdlePull
    /\ push = IdlePush
    /\ muts = << >>
    /\ msgs = << >>
    /\ last = NoOp
    /\ nops = 0

\* no top-level operation is in progress (the engine is synchronous)
Quiet == pull.pc # "run" /\ push.pc # "loop"

\* a new top-level operation may be invoked
MayInvoke == Quiet /\ nops < MaxOps

\* time passes
Tick ==
    /\ now < MaxClock
    /\ now' = now + 1
    /\ UNCHANGED <<lastRunTable, schema, runlog, main, rel, pull, push, muts,
                   msgs, last, nops>>

(* ---------------------------- create_db -------------------------------- *)
\* create_base_tables: the INSERT of the initial RunLog row
InitialRun(t) == [last_sync_timestamp |-> Fmt(t), status |-> "initial"]

\* create_base_tables that keeps a single row (DELETE FROM last_run, then INSERT)
CreateBaseTablesReplacing(log, t) == << InitialRun(t) >>

\* create_base_tables with the INSERT guarded by "the log is empty"
CreateBaseTablesOnce(log, t) ==
    IF log = << >> THEN Append(log, InitialRun(t)) ELSE log

\* create_base_tables: the unconditional INSERT INTO last_run
CreateBaseTables(log, t) == Append(log, InitialRun(t))

\* a CREATE TABLE or CREATE TRIGGER without IF NOT EXISTS
CreateRaisesIfExists(exists) == exists

\* CREATE TABLE / CREATE TRIGGER IF NOT EXISTS: an object that exists already
\* is left as it is and is no error
CreateRaises(exists) == FALSE

\* create_db.  fail names the statement at which the store raises sqlite3.Error:
\* "none", "first" (CREATE TABLE last_run) or "later" (any later statement).
\* The first CREATE TABLE runs outside a transaction (the sqlite3 module opens
\* one only before INSERT/UPDATE/DELETE), every later statement inside the
\* transaction opened by the INSERT, which conn.close() rolls back.  The
\* finally clause closes the cursor and the connection on every path.
CreateDb(fail) ==
    LET at == IF fail = "first" \/ CreateRaises(lastRunTable) THEN "first"
              ELSE IF fail = "later" \/ CreateRaises(schema) THEN "later"
              ELSE "none"
        text == IF at = fail THEN "io" ELSE "exists"
    IN
    /\ MayInvoke
    /\ nops' = nops + 1
    /\ last' = [op |-> "create_db", env |-> "", src |-> "", ok |-> at = "none",
                closed |-> TRUE]
    /\ pull' = IdlePull
    /\ push' = IdlePush
    /\ muts' = << >>
    /\ lastRunTable' = (lastRunTable \/ at # "first")
    /\ IF at = "none"
       THEN /\ runlog' = CreateBaseTables(runlog, now)
            /\ schema' = TRUE
            /\ msgs' = << Msg("callback", "created", 0, "") >>
       ELSE /\ UNCHANGED <<runlog, schema>>
            /\ msgs' = << Msg("callback", "create_error", 0, text) >>
    /\ UNCHANGED <<main, rel, now>>

(* ---------------------------- copy_table ------------------------------- *)
\* a copy by INSERT ... SELECT * : all nine columns
CopiedRowWhole(r) == r

\* a copy whose SELECT lists path and title in the wrong order
CopiedRowSwapped(r) ==
    [exp_article_id |-> Null, locale |-> r.locale, title |-> r.path,
     tags |-> r.tags, path |-> r.title, content |-> r.content,
     status |-> Null, modified_timestamp |-> Null]

\* _copy_main_table: the six copied columns; the other three take their default
CopiedRow(r) ==
    [exp_article_id |-> Null, locale |-> r.locale, title |-> r.title,
     tags |-> r.tags, path |-> r.path, content |-> r.content,
     status |-> Null, modified_timestamp |-> Null]

\* _copy_related_tables: id, pageId and the columns from the third one on, as
\* PRAGMA table_info lists them; arva_page_contact has contactId second, so
\* contactId is not in the list (pageId is named twice) and stays NULL
CopiedRel(k, r) ==
    IF k = "arva_page_contact" THEN [r EXCEPT !.contactId = Null] ELSE r

RECURSIVE MapRel(_, _)
MapRel(k, rows) ==
    IF rows = << >> THEN << >>
    ELSE <<CopiedRel(k, Head(rows))>> \o MapRel(k, Tail(rows))

\* a main table without the PRIMARY KEY on article_id
NoPrimaryKey(srcRows, tgtRows) == FALSE

\* create_main_env_table: article_id INTEGER PRIMARY KEY, so the INSERT of
\* _copy_main_table raises when a source article_id is in the target already
PrimaryKeyConflict(srcRows, tgtRows) == (DOMAIN srcRows) \cap (DOMAIN tgtRows) # {}

\* a copy_table that copies the related tables only
CopyMainTableSkipped(srcRows, tgtRows) == tgtRows

\* a copy that empties the target first (DELETE FROM target, then the INSERT)
CopyMainTableReplacing(srcRows, tgtRows) ==
    [i \in DOMAIN srcRows |-> CopiedRow(srcRows[i])]

\* _copy_main_table: the target table as the connection sees it after the INSERT
CopyMainTable(srcRows, tgtRows) ==
    [i \in DOMAIN srcRows \cup DOMAIN tgtRows |->
        IF i \in DOMAIN srcRows THEN CopiedRow(srcRows[i]) ELSE tgtRows[i]]

\* a copy_table that commits in its except branch
PartialCopyKept(before, inserted) == inserted

\* copy_table, except branch: the commit was not reached, so what the earlier
\* statements inserted is in a transaction that is never committed
AfterFailedCopy(before, inserted) == before

\* the statement of copy_table at which the store raises sqlite3.Error apart
\* from a primary-key conflict: none, or one of the related-table statements
CopyFaults == {"none", "related"}

\* copy_table: one INSERT ... SELECT for the main table, then one per related
\* table, then the commit.  A primary-key conflict in the target (or a missing
\* table) makes the first statement raise, fault "related" a later one.
\* Neither the success path nor the except branch closes the cursor or the
\* connection, and there is no finally clause.
CopyTable(src, tgt, fault) ==
    /\ MayInvoke
    /\ nops' = nops + 1
    /\ pull' = IdlePull
    /\ push' = IdlePush
    /\ muts' = << >>
    /\ LET at == IF ~schema \/ PrimaryKeyConflict(main[src], main[tgt]) THEN "main"
                 ELSE fault
           ok == at = "none"
       IN /\ last' = [op |-> "copy", env |-> tgt, src |-> src, ok |-> ok,
                      closed |-> FALSE]
          /\ CASE at = "none" ->
                  /\ main' = [main EXCEPT ![tgt] = CopyMainTable(main[src], @)]
                  /\ rel' = [rel EXCEPT ![tgt] =
                                [k \in Kinds |-> rel[tgt][k] \o MapRel(k, rel[src][k])]]
                  /\ msgs' = << Msg("callback", "copied", 0, "") >>
               [] at = "related" ->
                  /\ main' = [main EXCEPT ![tgt] =
                                AfterFailedCopy(@, CopyMainTable(main[src], @))]
                  /\ UNCHANGED rel
                  /\ msgs' = << Msg("callback", "copy_error", 0, "related") >>
               [] at = "main" ->
                  /\ UNCHANGED <<main, rel>>
                  /\ msgs' = << Msg("callback", "copy_error", 0, "main") >>
    /\ UNCHANGED <<lastRunTable, schema, runlog, now>>


(* ------------------------- get_arva_records ---------------------------- *)
\* what the remote answers to the read query for one identifier:
\*   "ok"        status 200, data with the page and the five collections
\*   "errors"    an errors array (application-level errors)
\*   "http"      a status other than 200, or no data, and no errors array
\*   "nopage"    status 200 and data, but data.pages.single is null
\*   "transport" requests.post raises a RequestException
Resp(kind, page, related, errors) ==
    [kind |-> kind, page |-> page, rel |-> related, errors |-> errors]

\* the answers enumerated for one request, each with the statement of
\* insert_arva_records at which the store raises sqlite3.Error ("none" if it
\* does not): three pages with their related collections, the same with a store
\* fault, and the four answers without data
Answer(resp, fault) == [resp |-> resp, fault |-> fault]
PageA == CHOOSE p \in PageVariants : p.title = "t1" /\ p.path = "/a"
PageB == CHOOSE p \in PageVariants : p.title = "t2"
PageC == CHOOSE p \in PageVariants : p.path = "/b"
PullAnswers ==
    { Answer(Resp("ok", PageA, FullRel, << >>), "none"),
      Answer(Resp("ok", PageB, EmptyRel, << >>), "none"),
      Answer(Resp("ok", PageC, FullRel, << >>), "none"),
      Answer(Resp("ok", PageB, EmptyRel, << >>), "after_upsert"),
      Answer(Resp("ok", PageB, EmptyRel, << >>), "after_delete"),
      Answer(Resp("errors", NoPage, EmptyRel, <<"e1", "e2", "e1">>), "none") }
    \cup { Answer(Resp(k, NoPage, EmptyRel, << >>), "none") :
             k \in {"http", "nopage", "transport"} }

\* error messages reported as they come, repeated ones included
NotDistinct(xs) == xs

\* the distinct entries of a list, each once (set(...) of the messages)
RECURSIVE Distinct(_)
Distinct(xs) ==
    IF xs = << >> THEN << >>
    ELSE LET rest == Distinct(Tail(xs))
         IN IF \E j \in 1..Len(rest) : rest[j] = Head(xs)
            THEN rest ELSE <<Head(xs)>> \o rest

RECURSIVE ErrorMsgs(_, _)
ErrorMsgs(id, texts) ==
    IF texts = << >> THEN << >>
    ELSE <<Msg("callback", "fetch_error", id, Head(texts))>> \o ErrorMsgs(id, Tail(texts))

\* an environment table without the trigger
NoTrigger(r, t) == r

\* the AFTER UPDATE trigger of the environment table
Trigger(r, t) == [r EXCEPT !.modified_timestamp = Some(Fmt(t))]

\* an upsert written as INSERT OR REPLACE: the conflicting row is replaced whole
InsertOrReplacePageData(table, id, page, t) ==
    [i \in DOMAIN table \cup {id} |->
        IF i = id
        THEN [exp_article_id |-> Null, locale |-> page.locale,
              title |-> page.title, tags |-> Join(page.tags),
              path |-> page.path, content |-> page.content,
              status |-> Null, modified_timestamp |-> Null]
        ELSE table[i]]

\* an upsert whose DO UPDATE also resets status and exp_article_id
UpsertResettingSync(table, id, page, t) ==
    IF id \in DOMAIN table
    THEN [table EXCEPT ![id] =
            Trigger([InsertOrReplacePageData(table, id, page, t)[id]
                        EXCEPT !.modified_timestamp = table[id].modified_timestamp], t)]
    ELSE InsertOrReplacePageData(table, id, page, t)

\* an upsert written as INSERT OR IGNORE: the conflicting row is kept as it is
InsertOrIgnorePageData(table, id, page, t) ==
    IF id \in DOMAIN table THEN table
    ELSE InsertOrReplacePageData(table, id, page, t)

\* _insert_page_data: INSERT ... ON CONFLICT(article_id) DO UPDATE of the five
\* columns (the update fires the trigger); tags joined with ";"
InsertPageData(table, id, page, t) ==
    IF id \in DOMAIN table
    THEN [table EXCEPT ![id] =
            Trigger([@ EXCEPT !.locale = page.locale, !.title = page.title,
                              !.tags = Join(page.tags), !.path = page.path,
                              !.content = page.content], t)]
    ELSE [i \in DOMAIN table \cup {id} |->
            IF i = id
            THEN [exp_article_id |-> Null, locale |-> page.locale,
                  title |-> page.title, tags |-> Join(page.tags),
                  path |-> page.path, content |-> page.content,
                  status |-> Null, modified_timestamp |-> Null]
            ELSE table[i]]

\* a pull that deletes no related row
DeleteNothing(rows, id) == rows

\* a DELETE without its WHERE clause
DeleteAll(rows, id) == << >>

\* _delete_records, for one related table: DELETE ... WHERE pageId = ?
RECURSIVE DeleteRecords(_, _)
DeleteRecords(rows, id) ==
    IF rows = << >> THEN << >>
    ELSE IF Head(rows).pageId = id THEN DeleteRecords(Tail(rows), id)
    ELSE <<Head(rows)>> \o DeleteRecords(Tail(rows), id)

\* the row _insert_arva_<kind> stores for one fetched entry: the remote id, the
\* page id and the entry's columns (isResponsible through bool())
StoredRel(k, id, r) ==
    IF k = "arva_institution"
    THEN [id |-> r.id, pageId |-> id, name |-> r.name, url |-> r.url,
          isResponsible |-> (~IsNull(r.isResponsible) /\ Val(r.isResponsible))]
    ELSE [x \in DOMAIN r \cup {"pageId"} |-> IF x = "pageId" THEN id ELSE r[x]]

RECURSIVE InsertArva(_, _, _)
InsertArva(k, id, fetched) ==
    IF fetched = << >> THEN << >>
    ELSE <<StoredRel(k, id, Head(fetched))>> \o InsertArva(k, id, Tail(fetched))

\* _delete_records followed by the five _insert_arva_<kind>
ReplaceRelated(tables, id, fetched) ==
    [k \in Kinds |-> DeleteRecords(tables[k], id) \o InsertArva(k, id, fetched[k])]

\* the statements executed before the store raised: the upsert, and for a
\* fault after the delete also the five DELETEs
PartialWrite(tables, id, fault) ==
    IF fault = "after_delete"
    THEN [k \in Kinds |-> DeleteRecords(tables[k], id)]
    ELSE tables

\* a connection whose uncommitted statements survive its close
UncommittedKept(before, written) == written

\* insert_arva_records, except and finally: the connection is closed without a
\* commit, which rolls its open transaction back
CloseWithoutCommit(before, written) == before

\* get_arva_records up to its loop; the identifier list is well formed
PullStart(env, ids) ==
    /\ MayInvoke
    /\ nops' = nops + 1
    /\ last' = [op |-> "pull", env |-> env, src |-> "", ok |-> TRUE, closed |-> TRUE]
    /\ pull' = [pc |-> "run", env |-> env, ids |-> ids, idx |-> 1,
                done |-> << >>, prev |-> pull.prev, twice |-> FALSE]
    /\ push' = IdlePush
    /\ muts' = << >>
    /\ msgs' = << >>
    /\ UNCHANGED <<store, now>>

\* get_arva_records with a list that int() rejects: the ValueError leaves the call
PullMalformed(env) ==
    /\ MayInvoke
    /\ nops' = nops + 1
    /\ last' = [op |-> "pull", env |-> env, src |-> "", ok |-> FALSE, closed |-> TRUE]
    /\ pull' = [IdlePull EXCEPT !.pc = "raised", !.env = env]
    /\ push' = IdlePush
    /\ muts' = << >>
    /\ msgs' = << >>
    /\ UNCHANGED <<store, now>>

\* one iteration of the loop of get_arva_records: the request for ids[idx],
\* and insert_arva_records when the answer carries data.  The page the remote
\* returns for an identifier carries that identifier as its id.  A store fault
\* (or a missing table) is caught inside insert_arva_records, which was called
\* without the callback: it prints, and the loop reports the insertion anyway.
PullNext(resp, fault) ==
    /\ pull.pc = "run"
    /\ LET id == pull.ids[pull.idx]
           e == pull.env
           saved == resp.kind = "ok" /\ schema /\ fault = "none"
           this == [env |-> e, id |-> id, page |-> resp.page, rel |-> resp.rel]
           finished == pull.idx = Len(pull.ids)
           outcome == [id |-> id, kind |-> resp.kind, saved |-> saved,
                       errors |-> resp.errors]
       IN /\ IF saved
             THEN /\ main' = [main EXCEPT ![e] = InsertPageData(@, id, resp.page, now)]
                  /\ rel' = [rel EXCEPT ![e] = ReplaceRelated(@, id, resp.rel)]
             ELSE IF resp.kind = "ok" /\ schema
             THEN /\ main' = [main EXCEPT ![e] =
                        CloseWithoutCommit(@, InsertPageData(@, id, resp.page, now))]
                  /\ rel' = [rel EXCEPT ![e] =
                        CloseWithoutCommit(@, PartialWrite(@, id, fault))]
             ELSE UNCHANGED <<main, rel>>
          /\ msgs' = msgs \o
                CASE resp.kind = "transport" ->
                        << Msg("callback", "fetch_error", id, "transport") >>
                  [] resp.kind = "errors" -> ErrorMsgs(id, Distinct(resp.errors))
                  [] resp.kind = "http" -> << Msg("callback", "fetch_failed", id, "") >>
                  [] resp.kind = "nopage" -> << >>
                  [] OTHER ->
                        << Msg("stdout", IF saved THEN "saved" ELSE "db_error", id, ""),
                           Msg("callback", "inserted", id, "") >>
          /\ pull' = [pull EXCEPT
                        !.pc = IF resp.kind = "nopage" THEN "raised"
                               ELSE IF finished THEN "done" ELSE "run",
                        !.idx = @ + 1,
                        !.done = Append(@, outcome),
                        !.prev = IF saved THEN Some(this) ELSE @,
                        !.twice = saved /\ pull.prev = Some(this)]
    /\ UNCHANGED <<lastRunTable, schema, runlog, now, push, muts, last, nops>>


(* -------------------------- process_records ---------------------------- *)
\* get_last_run_info: the newest RunLog row by TEXT order, parsed by strptime;
\* Null when the table is empty
RECURSIVE NewestText(_)
NewestText(rows) ==
    IF Len(rows) = 1 THEN rows[1].last_sync_timestamp
    ELSE LET rest == NewestText(Tail(rows))
         IN IF TextGT(rows[1].last_sync_timestamp, rest)
            THEN rows[1].last_sync_timestamp ELSE rest

\* a get_last_run_info that answers the epoch when the table is empty
GetLastRunInfoOrEpoch(log) ==
    IF log = << >> THEN Some(0) ELSE Some(Parse(NewestText(log)))

GetLastRunInfo(log) ==
    IF log = << >> THEN Null ELSE Some(Parse(NewestText(log)))

\* a scan whose WHERE clause lacks "modified_timestamp IS NULL OR"
SelectedOnlyNewer(r, cutoff) ==
    /\ ~IsNull(r.modified_timestamp)
    /\ ~IsNull(cutoff)
    /\ TextGT(Val(r.modified_timestamp), Fmt(Val(cutoff)))

\* a scan whose WHERE clause reads modified_timestamp >= ?
SelectedAtOrAfter(r, cutoff) ==
    \/ IsNull(r.modified_timestamp)
    \/ /\ ~IsNull(cutoff)
       /\ ~TextGT(Fmt(Val(cutoff)), Val(r.modified_timestamp))

\* the WHERE clause of fetch_all_records; the cutoff is bound as the TEXT the
\* sqlite3 adapter makes of the datetime, and a comparison with NULL is not true
Selected(r, cutoff) ==
    \/ IsNull(r.modified_timestamp)
    \/ /\ ~IsNull(cutoff)
       /\ TextGT(Val(r.modified_timestamp), Fmt(Val(cutoff)))

\* the tuple fetch_all_records returns for a row
Scanned(id, r) ==
    [article_id |-> id, exp_article_id |-> r.exp_article_id, locale |-> r.locale,
     title |-> r.title, tags |-> r.tags, path |-> r.path, content |-> r.content]

\* rows come back in rowid order, and the rowid is article_id
RECURSIVE ScanFrom(_, _, _)
ScanFrom(table, ids, cutoff) ==
    IF ids = {} THEN << >>
    ELSE LET i == CHOOSE x \in ids : \A y \in ids : x <= y
         IN (IF Selected(table[i], cutoff) THEN <<Scanned(i, table[i])>> ELSE << >>)
            \o ScanFrom(table, ids \ {i}, cutoff)

\* fetch_all_records; a missing table is an sqlite3.Error, answered by []
FetchAllRecords(e) ==
    IF lastRunTable /\ schema
    THEN ScanFrom(main[e], DOMAIN main[e], GetLastRunInfo(runlog))
    ELSE << >>

\* Python truthiness of a nullable integer / of a string
Truthy(x) == ~IsNull(x) /\ Val(x) # 0
Falsy(str) == str = ""

\* a process_record without the branch: every row is sent a create
MutationTypeAlwaysCreate(row) == "create"

\* process_record: the branch on exp_article_id
MutationType(row) == IF ~Truthy(row.exp_article_id) THEN "create" ELSE "update"

\* prepare_record_variables (plus variables["id"] for an update)
Variables(row) ==
    [content |-> row.content, locale |-> row.locale, path |-> row.path,
     tags |-> Split(row.tags), title |-> row.title,
     id |-> IF MutationType(row) = "update" THEN row.exp_article_id ELSE Null]

\* a status update that reaches one row only, the first that matches
UpdateRecordStatusFirst(table, pageId, path, locale, t) ==
    LET hits == {i \in DOMAIN table : table[i].path = path /\ table[i].locale = locale}
    IN [i \in DOMAIN table |->
          IF i \in hits /\ \A j \in hits : i <= j
          THEN Trigger([table[i] EXCEPT !.exp_article_id = Some(pageId),
                                        !.status = Some("succeeded")], t)
          ELSE table[i]]

\* a status update without its WHERE clause
UpdateRecordStatusAll(table, pageId, path, locale, t) ==
    [i \in DOMAIN table |->
        Trigger([table[i] EXCEPT !.exp_article_id = Some(pageId),
                                 !.status = Some("succeeded")], t)]

\* update_record_status: UPDATE ... WHERE path = ? AND locale = ?, with the trigger
UpdateRecordStatus(table, pageId, path, locale, t) ==
    [i \in DOMAIN table |->
        IF table[i].path = path /\ table[i].locale = locale
        THEN Trigger([table[i] EXCEPT !.exp_article_id = Some(pageId),
                                      !.status = Some("succeeded")], t)
        ELSE table[i]]

\* fetch_related_data: the entries sent for one related table
RelatedEntry(k, r) ==
    CASE k = "arva_institution" ->
            [id |-> Some(r.id), name |-> r.name, url |-> r.url,
             isResponsible |-> r.isResponsible]
      [] k = "arva_legal_act" ->
            [title |-> r.title, url |-> r.url, legalActType |-> r.legalActType,
             globalId |-> r.globalId, groupId |-> r.groupId,
             versionStartDate |-> r.versionStartDate]
      [] k = "arva_page_contact" ->
            [id |-> r.contactId, role |-> r.role, firstName |-> r.firstName,
             lastName |-> r.lastName, company |-> r.company, email |-> r.email,
             countryCode |-> r.countryCode, nationalNumber |-> r.nationalNumber]
      [] k = "arva_related_pages" ->
            [id |-> Some(r.id), title |-> r.title, locale |-> r.locale]
      [] OTHER -> [id |-> Some(r.id), name |-> r.name, url |-> r.url]

RECURSIVE RelatedOf(_, _, _)
RelatedOf(k, rows, id) ==
    IF rows = << >> THEN << >>
    ELSE (IF Head(rows).pageId = id THEN <<RelatedEntry(k, Head(rows))>> ELSE << >>)
         \o RelatedOf(k, Tail(rows), id)

FetchRelatedData(tables, id) == [k \in Kinds |-> RelatedOf(k, tables[k], id)]

\* a loop that a failed record ends
AdvanceOrAbort(p, failed) ==
    [p EXCEPT !.idx = IF failed THEN Len(p.rows) + 1 ELSE @ + 1]

\* the for loop of process_records: whatever happened to the record (failed is
\* TRUE when process_record reported a failure), the loop goes on to the next row
Advance(p, failed) == [p EXCEPT !.idx = @ + 1]

\* a connection in autocommit mode: every statement is durable at once
DurableAtOnce(committed, tx) == tx

\* what of the connection's transaction is durable after a statement: the
\* connection is opened with the default isolation level, so the UPDATE opens a
\* transaction and the committed table stays as it is until conn.commit()
DurableAfterUpdate(committed, tx) == committed

\* a mutation sent to the remote
Mutation(type, articleId, id, variables, result, pageId) ==
    [type |-> type, article_id |-> articleId, id |-> id, vars |-> variables,
     result |-> result, page_id |-> pageId]

\* a follow-up tagged with the local article_id instead of the remote page id
FollowUpTaggedLocal(articleId, pageId, related, result) ==
    Mutation("follow_up", articleId, Some(articleId), related, result, Null)

\* handle_follow_up_mutation: one mutation whose pageId variable is the page id
\* that the page mutation returned, carrying the five lists of related entries
HandleFollowUpMutation(articleId, pageId, related, result) ==
    Mutation("follow_up", articleId, Some(pageId), related, result, Null)

\* what the remote answers to a create or update mutation:
\*   "ok"        data.pages.<type>.page.id and a responseResult
\*   "errors"    an errors array
\*   "malformed" no errors array and no page where the code reads it
\*   "transport" requests.post or raise_for_status raises
PageResults == {"ok", "errors", "malformed", "transport"}
\* ... and to the follow-up mutation:
\*   "ok" data; "nodata" no data; "http" raise_for_status raises (RuntimeError);
\*   "transport" requests.post raises (response is unbound in the handler)
FollowUpResults == {"ok", "nodata", "http", "transport"}

\* a status update that is taken back when the follow-up fails
StatusUndoneOnFailure(before, updated, followUp) ==
    IF followUp = "ok" THEN updated ELSE before

\* process_record after update_record_status: the follow-up's failure is
\* reported (handle_follow_up_mutation, or the broad except) and no statement
\* touches the row again
AfterFollowUp(before, updated, followUp) == updated

\* a failure message that always names the local article_id
RecordIdLocal(row) == [key |-> "article_id", id |-> row.article_id]

\* process_record, record_id: the row is named by its article_id when it was
\* sent as a create, by its exp_article_id when it was sent as an update
RecordId(row) ==
    IF ~Truthy(row.exp_article_id)
    THEN [key |-> "article_id", id |-> row.article_id]
    ELSE [key |-> "exp_article_id", id |-> Val(row.exp_article_id)]

\* process_records up to its loop.  cred is FALSE when the bearer token or the
\* URL is empty (get_api_config raises ValueError).  The connection is open
\* while the loop runs; the early returns go through the finally clause.
PushStart(env, cred) ==
    /\ MayInvoke
    /\ nops' = nops + 1
    /\ pull' = IdlePull
    /\ muts' = << >>
    /\ LET rows == FetchAllRecords(env)
       IN IF ~cred
          THEN /\ push' = [IdlePush EXCEPT !.pc = "done", !.env = env]
               /\ msgs' = << Msg("callback", "push_error", 0, "") >>
               /\ last' = [op |-> "push", env |-> env, src |-> "", ok |-> FALSE,
                           closed |-> TRUE]
          ELSE /\ push' = [pc |-> IF rows = << >> THEN "done" ELSE "loop",
                           env |-> env, rows |-> rows, idx |-> 1,
                           scanned |-> TRUE, committed |-> FALSE, tx |-> main[env]]
               /\ msgs' = IF rows = << >>
                          THEN << Msg("callback", "no_records", 0, "") >>
                          ELSE << >>
               /\ last' = [op |-> "push", env |-> env, src |-> "", ok |-> TRUE,
                           closed |-> rows = << >>]
    /\ UNCHANGED <<store, now>>

\* process_record for rows[idx]: the page mutation, the local status update,
\* the related rows and the follow-up mutation.  An update answers with the page
\* it was addressed to; a create answers with the id the remote assigned.
PushRecord(result, pageId, followUp) ==
    /\ push.pc = "loop"
    /\ push.idx <= Len(push.rows)
    /\ LET row == push.rows[push.idx]
           type == MutationType(row)
           variables == Variables(row)
           page == Mutation(type, row.article_id, variables.id, variables, result,
                            IF result = "ok" THEN Some(pageId) ELSE Null)
           invalid == Falsy(variables.path) \/ Falsy(variables.locale)
           related == FetchRelatedData(rel[push.env], row.article_id)
           follow == HandleFollowUpMutation(row.article_id, pageId, related, followUp)
           label == RecordId(row)
       IN /\ type = "update" => pageId = Val(row.exp_article_id)
          /\ CASE result = "errors" ->
                    /\ muts' = Append(muts, page)
                    /\ msgs' = Append(msgs, Msg("callback", "record_failed",
                                                label.id, label.key))
                    /\ push' = Advance(push, TRUE)
               [] result \in {"malformed", "transport"} ->
                    /\ muts' = Append(muts, page)
                    /\ msgs' = Append(msgs, Msg("callback", "record_error",
                                                row.article_id, result))
                    /\ push' = Advance(push, TRUE)
               [] result = "ok" /\ invalid ->
                    /\ muts' = Append(muts, page)
                    /\ msgs' = msgs \o
                         << Msg("callback", "record", pageId, ""),
                            Msg("callback", "record_error", row.article_id, "invalid") >>
                    /\ push' = Advance(push, TRUE)
               [] OTHER ->
                    /\ muts' = muts \o <<page, follow>>
                    /\ msgs' = msgs \o
                         << Msg("callback", "record", pageId, ""),
                            CASE followUp = "ok" ->
                                    Msg("callback", "related_ok", pageId, "")
                              [] followUp = "nodata" ->
                                    Msg("callback", "related_failed", pageId, "")
                              [] followUp = "http" ->
                                    Msg("callback", "related_error", pageId, "")
                              [] OTHER ->
                                    Msg("callback", "record_error", row.article_id,
                                        "transport") >>
                    /\ push' = Advance([push EXCEPT
                                  !.tx = AfterFollowUp(@,
                                            UpdateRecordStatus(@, pageId, variables.path,
                                                               variables.locale, now),
                                            followUp)],
                                       followUp # "ok")
          /\ main' = [main EXCEPT ![push.env] = DurableAfterUpdate(@, push'.tx)]
    /\ UNCHANGED <<lastRunTable, schema, runlog, rel, now, pull, last, nops>>

\* a process_records that appends a completion row to last_run
AppendCompletion(log, t) ==
    Append(log, [last_sync_timestamp |-> Fmt(t), status |-> "completed"])

\* process_records after its loop: it commits and reports, and has no
\* statement that writes last_run
RecordCompletion(log, t) == log

\* the end of process_records: the single conn.commit() after the loop, and
\* the finally clause that closes the cursor and the connection
PushCommit ==
    /\ push.pc = "loop"
    /\ push.idx > Len(push.rows)
    /\ main' = [main EXCEPT ![push.env] = push.tx]
    /\ push' = [push EXCEPT !.pc = "done", !.committed = TRUE]
    /\ msgs' = Append(msgs, Msg("callback", "all_processed", 0, ""))
    /\ runlog' = RecordCompletion(runlog, now)
    /\ last' = [last EXCEPT !.closed = TRUE]
    /\ UNCHANGED <<lastRunTable, schema, rel, now, pull, muts, nops>>

\* the scan is interrupted before the commit (the process is killed, or an
\* exception that is no Exception unwinds the loop): the connection is closed
\* without a commit and its transaction is lost
PushInterrupt ==
    /\ push.pc = "loop"
    /\ push' = [push EXCEPT !.pc = "interrupted", !.tx = main[push.env]]
    /\ last' = [last EXCEPT !.closed = TRUE]
    /\ UNCHANGED <<store, now, pull, muts, msgs, nops>>

(* --------------------------- specification ----------------------------- *)
Next ==
    \/ Tick
    \/ \E fail \in {"none", "first", "later"} : CreateDb(fail)
    \/ \E src \in Envs, tgt \in Envs, fault \in CopyFaults : CopyTable(src, tgt, fault)
    \/ \E env \in PullEnvs, ids \in IdLists : PullStart(env, ids)
    \/ \E env \in PullEnvs : PullMalformed(env)
    \/ \E a \in PullAnswers : PullNext(a.resp, a.fault)
    \/ \E env \in PushEnvs, cred \in BOOLEAN : PushStart(env, cred)
    \/ \E result \in PageResults, pageId \in PageIds, followUp \in FollowUpResults :
          PushRecord(result, pageId, followUp)
    \/ PushCommit
    \/ PushInterrupt

Spec == Init /\ [][Next]_vars


(* ===================== push candidate selection ======================== *)
\* the time of the most recent RunLog entry
NewestTime(log) ==
    CHOOSE t \in {Parse(log[j].last_sync_timestamp) : j \in 1..Len(log)} :
        \A j \in 1..Len(log) : Parse(log[j].last_sync_timestamp) <= t

\* row i of the scanned table is among the rows the scan returned
InScan(i) == \E j \in 1..Len(push.rows) : push.rows[j].article_id = i

\* the scan has run and no row has been processed yet
JustScanned == push.scanned /\ push.idx = 1

\* C1: in a push scan a row whose modified_timestamp is NULL is selected, a row
\* whose modified_timestamp is older than or equal to the most recent RunLog
\* timestamp is not selected, and a row strictly newer than it is selected.
C1_CandidateSelection ==
    (JustScanned /\ schema) =>
        \A i \in DOMAIN main[push.env] :
            LET ts == main[push.env][i].modified_timestamp
            IN /\ IsNull(ts) => InScan(i)
               /\ (~IsNull(ts) /\ Parse(Val(ts)) <= NewestTime(runlog)) => ~InScan(i)
               /\ (~IsNull(ts) /\ Parse(Val(ts)) > NewestTime(runlog)) => InScan(i)

\* a scan that selected a row with a NULL timestamp and left out a row whose
\* timestamp is not newer than the RunLog's
C1_Witness ==
    /\ JustScanned /\ schema
    /\ \E i \in DOMAIN main[push.env] :
          IsNull(main[push.env][i].modified_timestamp) /\ InScan(i)
    /\ \E i \in DOMAIN main[push.env] :
          LET ts == main[push.env][i].modified_timestamp
          IN ~IsNull(ts) /\ Parse(Val(ts)) <= NewestTime(runlog) /\ ~InScan(i)

(* ======================== push state machine =========================== *)
IsPageMutation(m) == m.type \in {"create", "update"}
PageMutations == SelectSeq(muts, IsPageMutation)

\* the scan ran to its commit
ScanCompleted == push.pc = "done" /\ push.committed

\* C2: for every candidate row exactly one page mutation is issued, a create
\* when the row's exp_article_id is null at scan time and otherwise an update
\* addressed by that exp_article_id.
C2_CreateIffUnsynced ==
    ScanCompleted =>
        /\ Len(PageMutations) = Len(push.rows)
        /\ \A j \in 1..Len(push.rows) :
              LET m == PageMutations[j]
                  r == push.rows[j]
              IN /\ m.article_id = r.article_id
                 /\ IsNull(r.exp_article_id) => m.type = "create"
                 /\ ~IsNull(r.exp_article_id) =>
                        (m.type = "update" /\ m.id = r.exp_article_id)

\* C3: after a completed scan in which the create mutation for an unsynced row
\* succeeded, that row's exp_article_id is the returned id and its status is
\* 'succeeded'.
C3_CreateRecorded ==
    ScanCompleted =>
        \A j \in 1..Len(push.rows) :
            LET m == PageMutations[j]
                r == push.rows[j]
            IN (IsNull(r.exp_article_id) /\ m.type = "create" /\ m.result = "ok") =>
                  /\ main[push.env][r.article_id].exp_article_id = m.page_id
                  /\ main[push.env][r.article_id].status = Some("succeeded")


(* ============================== pull =================================== *)
\* this step is one iteration of the pull loop
PullStep == pull.pc = "run" /\ pull'.idx = pull.idx + 1

\* the outcome of the identifier handled last
LastDone == pull.done[Len(pull.done)]

\* this step pulled, and committed, the identifier and the data that the
\* previous committed pull had pulled, nothing else having written in between
RepeatedPull == PullStep /\ pull'.twice

\* C4 as claimed: pulling the same remote id twice with unchanged remote data
\* leaves the EnvironmentRecord row (all of its columns) and the related rows
\* exactly as they were after the first pull.
C4_PullIdempotentAllColumns ==
    [][RepeatedPull => (main' = main /\ rel' = rel)]_vars

\* C4, amended: the second pull leaves the related rows and every column of the
\* row but modified_timestamp as they were after the first pull, and sets
\* modified_timestamp to the time of the second pull.
C4_PullIdempotentButTimestamp ==
    [][RepeatedPull =>
        LET e == pull.env
            i == pull.ids[pull.idx]
        IN /\ rel' = rel
           /\ DOMAIN main'[e] = DOMAIN main[e]
           /\ \A x \in Envs : x # e => main'[x] = main[x]
           /\ \A j \in DOMAIN main[e] : j # i => main'[e][j] = main[e][j]
           /\ main'[e][i] = [main[e][i] EXCEPT !.modified_timestamp = Some(Fmt(now))]
      ]_vars

\* the same identifier and data have just been pulled a second time, over
\* related rows that the first pull had stored
C4_Witness ==
    /\ pull.twice
    /\ Val(pull.prev).rel = FullRel
    /\ ~IsNull(main[pull.env][Val(pull.prev).id].modified_timestamp)

\* the ids of the rows of one related table that belong to a page, in order
RECURSIVE IdsFor(_, _)
IdsFor(rows, id) ==
    IF rows = << >> THEN << >>
    ELSE (IF Head(rows).pageId = id THEN <<Head(rows).id>> ELSE << >>)
         \o IdsFor(Tail(rows), id)

\* C5: after a successful pull of identifier i, an EnvironmentRecord row with
\* article_id = i exists and, for each of the five related kinds, the rows with
\* pageId = i are exactly the rows the remote returned for i, remote ids
\* preserved, whatever related rows existed for i before.
C5_ReplaceOnSync ==
    (pull.pc \in {"run", "done"} /\ pull.done # << >> /\ LastDone.saved) =>
        LET d == Val(pull.prev)
        IN /\ d.id = LastDone.id
           /\ d.id \in DOMAIN main[d.env]
           /\ \A k \in Kinds :
                 IdsFor(rel[d.env][k], d.id) =
                     [j \in 1..Len(d.rel[k]) |-> d.rel[k][j].id]

\* a pull that returned two institutions and no service has been stored over
\* the related rows of an earlier pull of the same identifier
C5_Witness ==
    /\ pull.pc \in {"run", "done"} /\ Len(pull.done) = 2
    /\ pull.done[1].saved /\ pull.done[2].saved
    /\ pull.done[1].id = pull.done[2].id
    /\ Len(IdsFor(rel[pull.env]["arva_institution"], LastDone.id)) = 2
    /\ IdsFor(rel[pull.env]["arva_service"], LastDone.id) = << >>

\* the callback messages of a list that carry a given text
WithText(list, id, text) ==
    SelectSeq(list, LAMBDA m : m.sink = "callback" /\ m.id = id /\ m.text = text)

\* the messages this step added
Added == SubSeq(msgs', Len(msgs) + 1, Len(msgs'))

\* this step handled an answer that carries an errors array
ErrorsStep == PullStep /\ pull'.done[Len(pull'.done)].kind = "errors"

\* C6: when the answer for an identifier carries an errors array, nothing is
\* written for that identifier, the callback receives exactly one message per
\* distinct error text, and the loop goes on to the next identifier.
C6_ErrorsSkipIdentifier ==
    [][ErrorsStep =>
        LET id == pull.ids[pull.idx]
            errors == pull'.done[Len(pull'.done)].errors
            texts == {errors[j] : j \in 1..Len(errors)}
        IN /\ store' = store
           /\ \A t \in texts : Len(WithText(Added, id, t)) = 1
           /\ Len(Added) = Cardinality(texts)
           /\ pull'.pc = IF pull.idx < Len(pull.ids) THEN "run" ELSE "done"
      ]_vars

\* an answer with a repeated error text was followed by the next identifier
C6_Witness ==
    /\ Len(pull.done) = 2
    /\ pull.done[1].kind = "errors"
    /\ Cardinality({pull.done[1].errors[j] : j \in 1..Len(pull.done[1].errors)})
          < Len(pull.done[1].errors)

\* C7: in a pull of a list of identifiers, a failure while handling one
\* identifier (transport, application, store or data error) is caught and
\* reported via the callback, and every later identifier is still attempted.
C7_PullFailureIsolation ==
    (last.op = "pull" /\ last.ok) =>
        /\ pull.pc # "raised"
        /\ pull.pc = "done" => Len(pull.done) = Len(pull.ids)
        /\ \A j \in 1..Len(pull.done) :
              (pull.done[j].kind # "ok" \/ ~pull.done[j].saved) =>
                  \E n \in 1..Len(msgs) :
                      /\ msgs[n].sink = "callback"
                      /\ msgs[n].id = pull.done[j].id
                      /\ msgs[n].kind \in {"fetch_error", "fetch_failed", "db_error"}

(* ============================== push =================================== *)
\* the number of entries of a list that satisfy a test
Count(list, Test(_)) == Len(SelectSeq(list, Test))

IsException(m) == m.result \in {"malformed", "transport", "http"}
IsErrorMessage(m) ==
    m.sink = "callback" /\ m.kind \in {"record_error", "related_error"}

\* C8: any exception raised while preparing or sending one candidate row's
\* mutations is caught and reported via the callback, and every other candidate
\* row selected by the scan is still attempted exactly once.
C8_PushFailureIsolation ==
    /\ push.pc = "loop" =>
          /\ Len(PageMutations) = push.idx - 1
          /\ Count(msgs, IsErrorMessage) = Count(muts, IsException)
    /\ ScanCompleted =>
          /\ Len(PageMutations) = Len(push.rows)
          /\ \A j \in 1..Len(push.rows) :
                PageMutations[j].article_id = push.rows[j].article_id
          /\ Count(msgs, IsErrorMessage) = Count(muts, IsException)

\* a completed scan in which the first row's mutation raised and the second
\* row was pushed
C8_Witness ==
    /\ ScanCompleted
    /\ Len(push.rows) = 2
    /\ IsException(PageMutations[1])
    /\ PageMutations[2].result = "ok"

\* C9: push commits its local updates exactly once, after every candidate row
\* has been attempted; nothing it writes is durable before that commit, so an
\* interrupted scan leaves the store as it was before the scan.
C9_SingleFinalCommit ==
    [][push.pc = "loop" =>
        \/ store' = store /\ ~push'.committed
        \/ /\ push.idx > Len(push.rows)
           /\ ~push.committed /\ push'.committed /\ push'.pc = "done"
           /\ main' = [main EXCEPT ![push.env] = push.tx]
           /\ rel' = rel /\ runlog' = runlog
      ]_vars

\* a scan was interrupted after the remote had created the page of a row that
\* is still unsynced in the store
C9_Witness ==
    /\ push.pc = "interrupted"
    /\ \E j \in 1..Len(PageMutations) :
          /\ PageMutations[j].type = "create"
          /\ PageMutations[j].result = "ok"
          /\ IsNull(main[push.env][PageMutations[j].article_id].exp_article_id)

(* ============================== copy =================================== *)
\* this step is an invocation of copy_table
CopyStep == nops' = nops + 1 /\ last'.op = "copy"

\* this step is a copy in which a related-table statement raised
CopyFaultStep == CopyStep /\ msgs'[1].text = "related"

SyncColumns == {"locale", "title", "tags", "path", "content"}

\* C10: starting from an empty target, Copy leaves the target main table with
\* the source's rows, each with article_id, locale, title, tags, path and
\* content equal to the source row's, and leaves the source table unchanged.
C10_CopyPreservesMain ==
    [][(CopyStep /\ ~CopyFaultStep /\ schema /\ DOMAIN main[last'.env] = {}) =>
        LET src == last'.src
            tgt == last'.env
        IN /\ last'.ok
           /\ DOMAIN main'[tgt] = DOMAIN main[src]
           /\ \A i \in DOMAIN main[src] :
                 \A c \in SyncColumns : main'[tgt][i][c] = main[src][i][c]
           /\ main'[src] = main[src]
      ]_vars

\* a copy has filled another environment with the rows of its source
C10_Witness ==
    /\ last.op = "copy" /\ last.ok /\ last.src # last.env
    /\ DOMAIN main[last.env] = {1, 2}
    /\ DOMAIN main[last.src] = {1, 2}
    /\ \A i \in {1, 2} : \A c \in SyncColumns :
          main[last.env][i][c] = main[last.src][i][c]
    /\ main[last.src][1].tags # main[last.src][2].tags

\* the three columns that Copy does not name
StateColumns == {"exp_article_id", "status", "modified_timestamp"}

\* C11: every row that Copy creates in the target main table has
\* exp_article_id, status and modified_timestamp all NULL, whatever values the
\* source row holds for those three columns.
C11_CopyResetsSyncState ==
    [][(CopyStep /\ last'.ok) =>
        \A i \in DOMAIN main'[last'.env] \ DOMAIN main[last'.env] :
            \A c \in StateColumns : IsNull(main'[last'.env][i][c])
      ]_vars

\* a copy has created a row from a source row that has been pushed: the source
\* row's three state columns are set, the new row's are NULL
C11_Witness ==
    /\ last.op = "copy" /\ last.ok /\ last.src # last.env
    /\ \E i \in DOMAIN main[last.src] :
          /\ i \in DOMAIN main[last.env]
          /\ \A c \in StateColumns :
                ~IsNull(main[last.src][i][c]) /\ IsNull(main[last.env][i][c])

\* C12: for each of the five related kinds, Copy reproduces every source
\* related row in the target with the same id, the same pageId and the same
\* value in every remaining column (for page contacts, contactId included).
C12_CopyPreservesRelated ==
    [][(CopyStep /\ last'.ok) =>
        \A k \in Kinds :
            rel'[last'.env][k] = rel[last'.env][k] \o rel[last'.src][k]
      ]_vars

\* this step invokes Copy again with the source and target of the Copy that
\* was the last operation and succeeded, the source being non-empty
SecondCopyStep ==
    /\ CopyStep
    /\ last.op = "copy" /\ last.ok
    /\ last'.src = last.src /\ last'.env = last.env
    /\ DOMAIN main[last.src] # {}

\* C13 as claimed: Copy appends rows, so invoking Copy twice with the same
\* source and target, the source being non-empty, leaves the target holding
\* the copied data twice.
C13_SecondCopyDuplicates ==
    [][SecondCopyStep =>
        /\ last'.ok
        /\ \A k \in Kinds :
              Len(rel'[last.env][k]) = Len(rel[last.env][k]) + Len(rel[last.src][k])
      ]_vars

\* C13, amended: the second Copy fails on the article_id primary key of the
\* target main table, reports the error once via the callback and leaves the
\* target as the first Copy left it, holding the copied data once.
C13_SecondCopyRejected ==
    [][SecondCopyStep =>
        /\ ~last'.ok
        /\ main' = main /\ rel' = rel
        /\ Len(msgs') = 1
        /\ msgs'[1].sink = "callback" /\ msgs'[1].kind = "copy_error"
      ]_vars

\* a Copy has failed on its first statement against a target that holds the
\* rows and the related rows of its source once
C13_Witness ==
    /\ last.op = "copy" /\ ~last.ok /\ last.src # last.env
    /\ schema /\ msgs[1].text = "main"
    /\ DOMAIN main[last.src] # {}
    /\ DOMAIN main[last.env] = DOMAIN main[last.src]
    /\ \A i \in DOMAIN main[last.src] : main[last.env][i] = CopiedRow(main[last.src][i])
    /\ \A k \in Kinds : Len(rel[last.env][k]) = Len(rel[last.src][k])
    /\ rel[last.src]["arva_institution"] # << >>

\* the failure of this Copy is reported exactly once via the callback
CopyErrorReportedOnce ==
    /\ ~last'.ok
    /\ Len(msgs') = 1
    /\ msgs'[1].sink = "callback" /\ msgs'[1].kind = "copy_error"

\* C14 as claimed: when a statement fails part-way through Copy, the remaining
\* steps are not executed, the failure is reported exactly once via the
\* callback, and the rows inserted by the earlier steps remain in the target.
C14_PartialCopyRemains ==
    [][CopyFaultStep =>
        /\ CopyErrorReportedOnce
        /\ main'[last'.env] = CopyMainTable(main[last'.src], main[last'.env])
      ]_vars

\* C14, amended: when a statement fails part-way through Copy, the remaining
\* steps are not executed, the failure is reported exactly once via the
\* callback, and nothing that Copy inserted is committed: the main and related
\* tables of the target are as they were before the Copy.
C14_FailedCopyLeavesNothing ==
    [][CopyFaultStep =>
        /\ CopyErrorReportedOnce
        /\ main' = main /\ rel' = rel
      ]_vars

\* a Copy from a non-empty source into an empty target has failed in a
\* related-table statement, after the statement that copies the main table
C14_Witness ==
    /\ last.op = "copy" /\ ~last.ok /\ last.src # last.env
    /\ msgs[1].text = "related"
    /\ DOMAIN main[last.src] # {}
    /\ DOMAIN main[last.env] = {}

(* ============================= create_db =============================== *)
\* this step is an invocation of create_db
CreateStep == nops' = nops + 1 /\ last'.op = "create_db"

\* this step is a create_db in which the store failed (disk, lock, ...)
CreateFaultStep ==
    CreateStep /\ msgs'[1].kind = "create_error" /\ msgs'[1].text = "io"

\* C15: schema creation is idempotent: invoking it again on a store that has
\* the schema produces no error and leaves every table (and its rows) and
\* every trigger as it was, none of them twice.
C15_CreateIdempotent ==
    [][(CreateStep /\ ~CreateFaultStep /\ lastRunTable /\ schema) =>
        /\ last'.ok
        /\ msgs' = << Msg("callback", "created", 0, "") >>
        /\ lastRunTable' /\ schema'
        /\ main' = main /\ rel' = rel
      ]_vars

\* the schema has been created a second time on a store that holds pulled rows
C15_Witness ==
    /\ last.op = "create_db" /\ last.ok
    /\ Len(runlog) >= 2
    /\ DOMAIN main["dev"] # {}
    /\ rel["dev"]["arva_institution"] # << >>

\* C16: each successful schema creation appends exactly one RunLog row with
\* status 'initial' and no other step changes the RunLog: after the first
\* creation on an empty store the RunLog has one row, after n successful
\* creations n.
C16_CreateAppendsOneRun ==
    [][ IF CreateStep /\ last'.ok
        THEN /\ Len(runlog') = Len(runlog) + 1
             /\ SubSeq(runlog', 1, Len(runlog)) = runlog
             /\ runlog'[Len(runlog')].status = "initial"
             /\ runlog'[Len(runlog')].last_sync_timestamp = Fmt(now)
        ELSE runlog' = runlog
      ]_vars

\* three creations have succeeded on the store, at different times
C16_Witness ==
    /\ last.op = "create_db" /\ last.ok
    /\ Len(runlog) = 3
    /\ \A j \in 1..3 : runlog[j].status = "initial"
    /\ runlog[1].last_sync_timestamp # runlog[3].last_sync_timestamp

\* C17: schema creation is atomic: when a statement of create_db fails, no
\* table or trigger and no RunLog row is persisted and the failure is reported
\* via the callback; when it succeeds, all of them are persisted together.
C17_CreateAtomic ==
    [][CreateStep =>
        IF last'.ok
        THEN /\ lastRunTable' /\ schema'
             /\ Len(runlog') = Len(runlog) + 1
        ELSE /\ store' = store
             /\ msgs' # << >>
             /\ msgs'[1].sink = "callback" /\ msgs'[1].kind = "create_error"
      ]_vars

(* =========================== error boundary ============================ *)
\* C18: no public engine operation raises past its own boundary when a
\* callback is supplied: every failure (a malformed identifier list, a response
\* without the expected fields, an empty credential, ...) is turned into a
\* callback message and the call returns normally.
C18_NoFailureEscapes ==
    /\ pull.pc # "raised"
    /\ (Quiet /\ last.op # "none" /\ ~last.ok) =>
          \E n \in 1..Len(msgs) : msgs[n].sink = "callback"

(* ========================== pull, continued ============================ *)
\* C19: pull is a one-way mirror: after a successful pull of identifier i, the
\* locale, title, tags, path and content of row i equal the remote values (the
\* tag titles joined with ';'), whatever local values the row held before.
C19_PullMirrorsRemote ==
    (pull.pc \in {"run", "done"} /\ pull.done # << >> /\ LastDone.saved) =>
        LET d == Val(pull.prev)
            r == main[d.env][d.id]
        IN /\ d.id = LastDone.id
           /\ r.locale = d.page.locale
           /\ r.title = d.page.title
           /\ r.tags = Join(d.page.tags)
           /\ r.path = d.page.path
           /\ r.content = d.page.content

\* a pull has overwritten the row that the pull before it had stored for the
\* same identifier from different remote data, two tag titles among them
C19_Witness ==
    /\ pull.pc \in {"run", "done"} /\ Len(pull.done) = 2
    /\ pull.done[1].saved /\ pull.done[2].saved
    /\ pull.done[1].id = pull.done[2].id
    /\ ~pull.twice
    /\ Len(Val(pull.prev).page.tags) = 2
    /\ main[pull.env][LastDone.id].tags = <<"x", ";", "y">>
    /\ ~IsNull(main[pull.env][LastDone.id].modified_timestamp)

(* ========================== push, continued ============================ *)
\* this step is process_record for one candidate row
PushRecordStep == push.pc = "loop" /\ push'.idx = push.idx + 1

\* the mutations this step sent, in the order in which they were sent
Sent == SubSeq(muts', Len(muts) + 1, Len(muts'))

\* C20: for a candidate row the page mutation (create or update) comes first;
\* when it succeeds, the local update sets exp_article_id and status on the
\* rows found by (path, locale), and then exactly one follow-up mutation is
\* sent, carrying the related rows stored under the row's local article_id and
\* tagged with the remote page id that the page mutation returned; the update
\* stands whatever the follow-up answers.  When the page mutation does not
\* succeed, nothing is updated and no follow-up is sent.
C20_PushOrdering ==
    [][PushRecordStep =>
        LET row == push.rows[push.idx]
        IN /\ Sent # << >>
           /\ IsPageMutation(Sent[1])
           /\ Sent[1].article_id = row.article_id
           /\ IF Sent[1].result = "ok"
              THEN /\ Len(Sent) = 2
                   /\ Sent[2].type = "follow_up"
                   /\ Sent[2].id = Sent[1].page_id
                   /\ \A k \in Kinds :
                         Len(Sent[2].vars[k]) =
                             Len(IdsFor(rel[push.env][k], row.article_id))
                   /\ [j \in 1..Len(Sent[2].vars["arva_institution"]) |->
                          Val(Sent[2].vars["arva_institution"][j].id)]
                         = IdsFor(rel[push.env]["arva_institution"], row.article_id)
                   /\ \A i \in DOMAIN push.tx :
                         IF push.tx[i].path = row.path /\ push.tx[i].locale = row.locale
                         THEN /\ push'.tx[i].exp_article_id = Sent[1].page_id
                              /\ push'.tx[i].status = Some("succeeded")
                         ELSE push'.tx[i] = push.tx[i]
              ELSE /\ Len(Sent) = 1
                   /\ push'.tx = push.tx
      ]_vars

\* two rows have been pushed: the first one's page was created under a page id
\* other than its article_id and its follow-up, which carried its two
\* institutions, raised; the second one's page mutation failed
C20_Witness ==
    /\ push.pc \in {"loop", "done"} /\ push.idx = 3
    /\ Len(muts) = 3
    /\ muts[1].type = "create" /\ muts[1].result = "ok"
    /\ muts[1].page_id # Some(muts[1].article_id)
    /\ muts[2].type = "follow_up" /\ muts[2].result = "transport"
    /\ Len(muts[2].vars["arva_institution"]) = 2
    /\ push.tx[muts[1].article_id].exp_article_id = muts[1].page_id
    /\ IsPageMutation(muts[3]) /\ muts[3].result = "errors"

(* ============================ invariants =============================== *)
\* C21: modified_timestamp is written only by the update trigger: a row
\* inserted by pull or copy has modified_timestamp NULL, and every update of an
\* existing row (the conflict path of pull's upsert, push's status update)
\* leaves the row's modified_timestamp equal to the time of the update, in the
\* push transaction as in the table once the transaction is committed.
C21_TimestampByTrigger ==
    [][ /\ \A e \in Envs : \A i \in DOMAIN main'[e] :
              IF i \notin DOMAIN main[e]
              THEN IsNull(main'[e][i].modified_timestamp)
              ELSE main'[e][i] # main[e][i] =>
                      \/ main'[e][i].modified_timestamp = Some(Fmt(now))
                      \/ /\ push.pc = "loop" /\ push'.committed /\ e = push.env
                         /\ main'[e][i] = push.tx[i]
        /\ PushRecordStep =>
              \A i \in DOMAIN push.tx :
                 push'.tx[i] # push.tx[i] =>
                     push'.tx[i].modified_timestamp = Some(Fmt(now))
      ]_vars

\* a push has committed a status update that it made before the clock
\* advanced: the row carries the time of the update, not that of the commit
C21_Witness ==
    /\ push.pc = "done" /\ push.committed
    /\ \E i \in DOMAIN main[push.env] :
          /\ main[push.env][i].status = Some("succeeded")
          /\ main[push.env][i].modified_timestamp = Some(Fmt(0))
    /\ now = 1

\* C22: in each environment table no two rows share an article_id (the rows
\* are keyed by it): no step changes the article_id of a row or deletes a row
\* of a table or of the push transaction, and a Copy that would put a second
\* row under an article_id of the target is rejected and changes nothing.
C22_ArticleIdUniqueAndStable ==
    [][ /\ \A e \in Envs : DOMAIN main[e] \subseteq DOMAIN main'[e]
        /\ PushRecordStep => DOMAIN push'.tx = DOMAIN push.tx
        /\ (push.pc = "loop" /\ push'.committed) =>
              DOMAIN main'[push.env] = DOMAIN main[push.env]
        /\ (CopyStep /\ DOMAIN main[last'.src] \cap DOMAIN main[last'.env] # {}) =>
              (~last'.ok /\ main' = main)
      ]_vars

\* a table holds two rows, one of which a pull has inserted beside the other,
\* and a Copy of the table onto itself has been rejected
C22_Witness ==
    /\ last.op = "copy" /\ ~last.ok /\ last.src = last.env
    /\ DOMAIN main[last.env] = {1, 2}
    /\ main[last.env][1] # main[last.env][2]

\* C23: ownership: in every reachable state, every related-entity row's pageId
\* is the article_id of a row of the main table of the same environment.
C23_NoOrphanedRelatedRows ==
    \A e \in Envs : \A k \in Kinds : \A j \in 1..Len(rel[e][k]) :
        rel[e][k][j].pageId \in DOMAIN main[e]

\* a Copy has filled the related tables of test from those of dev, whose rows
\* belong to a pulled page
C23_Witness ==
    /\ last.op = "copy" /\ last.ok /\ last.src = "dev" /\ last.env = "test"
    /\ Len(rel["test"]["arva_page_contact"]) = 1
    /\ Len(rel["test"]["arva_institution"]) = 2
    /\ rel["test"]["arva_page_contact"][1].pageId \in DOMAIN main["test"]

\* the last_sync_timestamp values do not decrease in insertion order
Monotone(log) ==
    \A j \in 1..(Len(log) - 1) :
        ~TextGT(log[j].last_sync_timestamp, log[j + 1].last_sync_timestamp)

\* C24: the RunLog is append-only: no step updates or deletes a RunLog row,
\* and the last_sync_timestamp values are non-decreasing in insertion order.
C24_RunLogAppendOnly ==
    [][ /\ Len(runlog') >= Len(runlog)
        /\ SubSeq(runlog', 1, Len(runlog)) = runlog
        /\ Monotone(runlog')
      ]_vars

\* the RunLog holds two rows of different times, and a push has run and
\* committed since the second was appended
C24_Witness ==
    /\ Len(runlog) = 2
    /\ TextGT(runlog[2].last_sync_timestamp, runlog[1].last_sync_timestamp)
    /\ last.op = "push" /\ push.scanned /\ push.pc = "done"

\* C25: pull, push and copy leave the RunLog unchanged (only schema creation
\* writes it), so the cutoff a push scan reads, the most recent RunLog
\* timestamp, is the same before and after any of their steps.
C25_OnlyCreateWritesRunLog ==
    [][~CreateStep =>
        /\ lastRunTable' = lastRunTable
        /\ runlog' = runlog
        /\ GetLastRunInfo(runlog') = GetLastRunInfo(runlog)
      ]_vars

\* after a creation, a pull, a copy and a committed push of the copied rows,
\* at a later time, the cutoff is still the time of the creation
C25_Witness ==
    /\ nops = 4 /\ now = 1
    /\ last.op = "push" /\ last.env = "test"
    /\ push.committed /\ Len(muts) >= 2
    /\ Len(runlog) = 1
    /\ GetLastRunInfo(runlog) = Some(0)

(* ============================ connections ============================== *)
\* C26: scoped acquisition with guaranteed release: when an engine operation
\* (create_db, copy_table, insert_arva_records, process_records) has returned,
\* on its success path or on an error path, the store connection and cursor it
\* opened have been closed.
C26_ConnectionReleased ==
    Quiet => last.closed

(* ========================= push, across scans ========================== *)
\* this step is the scan of a process_records call
ScanStep == nops' = nops + 1 /\ last'.op = "push" /\ push'.scanned

\* the candidate of the scan of this step for a given article_id, as a set
CandidatesFor(id) ==
    {n \in 1..Len(push'.rows) : push'.rows[n].article_id = id}

\* C27: after a committed push scan in which row r was pushed successfully
\* (page mutation and follow-up), with no write to r or to the RunLog since,
\* the next push scan of the environment selects r again and prepares an
\* update, not a create, for it.  Stated for the rows whose status update was
\* made at a time later than the cutoff.
C27_PushedRowSelectedAgain ==
    [][(ScanStep /\ push.committed /\ push'.env = push.env) =>
        \A j \in 1..(Len(muts) - 1) :
            (/\ IsPageMutation(muts[j]) /\ muts[j].result = "ok"
             /\ muts[j + 1].type = "follow_up" /\ muts[j + 1].result = "ok"
             /\ TextGT(Val(main[push.env][muts[j].article_id].modified_timestamp),
                       Fmt(Val(GetLastRunInfo(runlog))))) =>
                \E n \in CandidatesFor(muts[j].article_id) :
                    MutationType(push'.rows[n]) = "update"
      ]_vars

\* C28 as claimed: a row created by pull or copy that no push has updated
\* (its status is NULL) has exp_article_id NULL and modified_timestamp NULL,
\* so the next push scan of its environment selects it and prepares a create.
C28_UnpushedRowIsFresh ==
    [][ /\ \A e \in Envs : \A i \in DOMAIN main'[e] :
              IsNull(main'[e][i].status) =>
                  /\ IsNull(main'[e][i].exp_article_id)
                  /\ IsNull(main'[e][i].modified_timestamp)
        /\ ScanStep =>
              \A i \in DOMAIN main[push'.env] :
                 IsNull(main[push'.env][i].status) =>
                     \E n \in CandidatesFor(i) :
                         MutationType(push'.rows[n]) = "create"
      ]_vars

\* C28, amended: a row created by pull or copy that has not been updated since
\* (neither re-pulled nor written by a push: its modified_timestamp is NULL)
\* has exp_article_id NULL and status NULL, the next push scan of its
\* environment selects it, and the scan sends a create mutation for it.
C28_UntouchedRowIsCreated ==
    [][ /\ \A e \in Envs : \A i \in DOMAIN main'[e] :
              IsNull(main'[e][i].modified_timestamp) =>
                  /\ IsNull(main'[e][i].exp_article_id)
                  /\ IsNull(main'[e][i].status)
        /\ ScanStep =>
              \A i \in DOMAIN main[push'.env] :
                 IsNull(main[push'.env][i].modified_timestamp) =>
                     \E n \in CandidatesFor(i) :
                         MutationType(push'.rows[n]) = "create"
        /\ (PushRecordStep /\ IsNull(push.rows[push.idx].exp_article_id)) =>
              Sent[1].type = "create"
      ]_vars

\* a scan of test has sent a create for a row that copy took from a pulled
\* row of dev, under the article_id that is the page's remote id
C28_Witness ==
    /\ push.env = "test" /\ push.scanned
    /\ muts # << >>
    /\ muts[1].type = "create" /\ muts[1].article_id = 1
    /\ 1 \in DOMAIN main["dev"]
    /\ IsNull(main["test"][1].modified_timestamp)

\* no other row of the table has the (path, locale) of row i
UniquePathLocale(table, i) ==
    \A j \in DOMAIN table :
        j # i => ~(table[j].path = table[i].path /\ table[j].locale = table[i].locale)

\* C29: across completed push scans of an environment, interleaved with pulls
\* and copies, a row whose stored exp_article_id is a non-zero id (a create
\* succeeded for it and was committed) and whose (path, locale) is unique in
\* its table is never sent a create again: no step makes its exp_article_id
\* NULL or zero, every scan prepares an update for it, and an update is what
\* is sent.
C29_NoSecondCreate ==
    [][ /\ \A e \in Envs : \A i \in DOMAIN main[e] :
              (Truthy(main[e][i].exp_article_id) /\ UniquePathLocale(main[e], i)) =>
                  Truthy(main'[e][i].exp_article_id)
        /\ ScanStep =>
              \A n \in 1..Len(push'.rows) :
                 Truthy(main[push'.env][push'.rows[n].article_id].exp_article_id) =>
                     MutationType(push'.rows[n]) = "update"
        /\ (PushRecordStep /\ Truthy(push.rows[push.idx].exp_article_id)) =>
              /\ Sent[1].type = "update"
              /\ Sent[1].id = push.rows[push.idx].exp_article_id
      ]_vars

\* a second scan has sent an update, addressed to the id that the create of
\* the first scan returned, and has been committed
C29_Witness ==
    /\ push.committed
    /\ Len(muts) = 2
    /\ muts[1].type = "update" /\ muts[1].result = "ok" /\ muts[1].id = Some(5)
    /\ muts[1].article_id # 5
    /\ main[push.env][muts[1].article_id].exp_article_id = Some(5)
    /\ UniquePathLocale(main[push.env], muts[1].article_id)

(* ========================== pull, re-pull ============================== *)
\* C30: re-pulling an identifier whose row exists already overwrites only
\* locale, title, tags, path and content: the row's exp_article_id and status
\* keep the values they had before the pull, so a synced row stays synced.
C30_RePullKeepsSyncState ==
    [][(PullStep /\ pull'.done[Len(pull'.done)].saved
                 /\ pull.ids[pull.idx] \in DOMAIN main[pull.env]) =>
        LET i == pull.ids[pull.idx]
            old == main[pull.env][i]
            new == main'[pull.env][i]
        IN /\ new.exp_article_id = old.exp_article_id
           /\ new.status = old.status
           /\ new = [old EXCEPT !.locale = new.locale, !.title = new.title,
                                !.tags = new.tags, !.path = new.path,
                                !.content = new.content,
                                !.modified_timestamp = new.modified_timestamp]
      ]_vars

\* a pull has been stored over a row that a push had synced under page id 5
C30_Witness ==
    /\ last.op = "pull" /\ pull.done # << >> /\ LastDone.saved
    /\ main[pull.env][LastDone.id].status = Some("succeeded")
    /\ main[pull.env][LastDone.id].exp_article_id = Some(5)
    /\ main[pull.env][LastDone.id].title = Val(pull.prev).page.title

\* this step handled an answer with data whose store write raised
PullFaultStep ==
    PullStep /\ pull'.done[Len(pull'.done)].kind = "ok"
             /\ ~pull'.done[Len(pull'.done)].saved

\* C31: pull is all-or-nothing per identifier: when a store error occurs after
\* the main-row upsert or after the related-row delete, nothing of that
\* identifier's pull is persisted; the main row and the related rows stored
\* for that pageId are exactly as before the pull.
C31_PullAllOrNothing ==
    [][PullFaultStep =>
        LET e == pull.env
            i == pull.ids[pull.idx]
        IN /\ DOMAIN main'[e] = DOMAIN main[e]
           /\ i \in DOMAIN main[e] => main'[e][i] = main[e][i]
           /\ \A k \in Kinds :
                 SelectSeq(rel'[e][k], LAMBDA r : r.pageId = i) =
                     SelectSeq(rel[e][k], LAMBDA r : r.pageId = i)
      ]_vars

\* a stored page with two institutions was pulled again, the store failed in
\* the second pull, and the title and the institutions of the first are there
C31_Witness ==
    /\ pull.pc \in {"run", "done"} /\ Len(pull.done) = 2
    /\ pull.done[1].saved /\ pull.done[1].id = pull.done[2].id
    /\ pull.done[2].kind = "ok" /\ ~pull.done[2].saved
    /\ schema
    /\ Val(pull.prev).page # PageB
    /\ main[pull.env][LastDone.id].title = Val(pull.prev).page.title
    /\ Len(IdsFor(rel[pull.env]["arva_institution"], LastDone.id)) = 2

\* C32: pull reports success for an identifier through the caller's callback
\* only when that identifier's data was committed to the store; when the store
\* write fails, the callback receives an error message for that identifier and
\* no success message.
C32_SuccessOnlyWhenCommitted ==
    [][PullFaultStep =>
        LET i == pull.ids[pull.idx]
        IN /\ \A j \in 1..Len(Added) :
                 ~(Added[j].sink = "callback" /\ Added[j].kind = "inserted")
           /\ \E j \in 1..Len(Added) :
                 /\ Added[j].sink = "callback" /\ Added[j].id = i
                 /\ Added[j].kind = "db_error"
      ]_vars

\* this step sent a page mutation that was answered with an errors array
PushErrorsStep == PushRecordStep /\ Sent[1].result = "errors"

\* C33: when the create or update response for a candidate row carries an
\* errors array, the push engine reports one failure message naming the row
\* (by article_id for a create, by exp_article_id for an update), leaves that
\* row's exp_article_id, status and modified_timestamp unchanged, and sends no
\* follow-up mutation for it.
C33_ErrorsLeaveRowUnchanged ==
    [][PushErrorsStep =>
        LET row == push.rows[push.idx]
        IN /\ Len(Added) = 1
           /\ Added[1].sink = "callback" /\ Added[1].kind = "record_failed"
           /\ IF Sent[1].type = "create"
              THEN Added[1].text = "article_id" /\ Added[1].id = row.article_id
              ELSE /\ Added[1].text = "exp_article_id"
                   /\ Added[1].id = Val(row.exp_article_id)
           /\ Len(Sent) = 1
           /\ push'.tx = push.tx
           /\ main' = main
      ]_vars

\* an update of a pushed row whose remote id differs from its article_id was
\* answered with an errors array, and the push was committed
C33_Witness ==
    /\ push.pc = "done" /\ push.committed
    /\ Len(muts) = 1
    /\ muts[1].type = "update" /\ muts[1].result = "errors"
    /\ main[push.env][muts[1].article_id].exp_article_id = muts[1].id
    /\ Val(muts[1].id) # muts[1].article_id
    /\ main[push.env][muts[1].article_id].status = Some("succeeded")
    /\ \E j \in 1..Len(msgs) : msgs[j].kind = "record_failed"
                                 /\ msgs[j].text = "exp_article_id"

\* a message that reports a failure of the follow-up
IsErrorOrFailure(m) ==
    m.sink = "callback" /\ m.kind \in {"related_failed", "related_error", "record_error"}

\* this step sent a page mutation that succeeded and a follow-up that failed
FollowUpFailedStep ==
    PushRecordStep /\ Len(Sent) = 2 /\ Sent[1].result = "ok" /\ Sent[2].result # "ok"

\* C34: a failed follow-up mutation does not undo the page result: when the
\* create or update succeeded but the follow-up call fails, the row is still
\* updated, and at the end of the loop committed, with exp_article_id set to the
\* returned id and status 'succeeded'.
C34_FollowUpFailureKeepsResult ==
    [][/\ FollowUpFailedStep =>
            LET r == push'.tx[Sent[1].article_id]
            IN /\ r.exp_article_id = Sent[1].page_id
               /\ r.status = Some("succeeded")
               /\ Len(Added) = 2 /\ IsErrorOrFailure(Added[2])
       /\ (push.pc = "loop" /\ push'.pc = "done" /\ push'.committed) =>
            main'[push.env] = push.tx
      ]_vars

\* a push was committed whose only row was created remotely while its follow-up
\* failed: the row is 'succeeded' and none of its related rows reached the remote
C34_Witness ==
    /\ push.pc = "done" /\ push.committed
    /\ Len(muts) = 2
    /\ muts[1].type = "create" /\ muts[1].result = "ok"
    /\ muts[2].type = "follow_up" /\ muts[2].result = "http"
    /\ Len(muts[2].vars["arva_institution"]) = 2
    /\ main[push.env][muts[1].article_id].exp_article_id = muts[1].page_id
    /\ main[push.env][muts[1].article_id].status = Some("succeeded")

\* this step ran the local status update (the page mutation succeeded and the
\* row's path and locale are not empty)
StatusUpdateStep == PushRecordStep /\ Len(Sent) = 2

\* C35: the local status update of push is keyed by (path, locale) only: when
\* several rows of the environment table share the pushed row's path and
\* locale, a successful push of one of them sets exp_article_id to the returned
\* id and status to 'succeeded' on all of them, while rows with a different
\* (path, locale) are left unchanged.
C35_StatusUpdateByPathLocale ==
    [][StatusUpdateStep =>
        LET row == push.rows[push.idx]
        IN /\ DOMAIN push'.tx = DOMAIN push.tx
           /\ \A i \in DOMAIN push.tx :
                 IF push.tx[i].path = row.path /\ push.tx[i].locale = row.locale
                 THEN /\ push'.tx[i].exp_article_id = Sent[1].page_id
                      /\ push'.tx[i].status = Some("succeeded")
                 ELSE push'.tx[i] = push.tx[i]
      ]_vars

\* the push of row 1 has updated row 2 as well, which shares its path and
\* locale and has not been sent yet
C35_Witness ==
    /\ push.pc = "loop" /\ push.idx = 2 /\ Len(push.rows) = 2
    /\ Len(muts) = 2 /\ muts[1].article_id = 1 /\ muts[1].result = "ok"
    /\ push.rows[2].article_id = 2
    /\ IsNull(push.rows[2].exp_article_id)
    /\ push.tx[2].path = push.tx[1].path /\ push.tx[2].locale = push.tx[1].locale
    /\ push.tx[2].exp_article_id = muts[1].page_id
    /\ push.tx[2].status = Some("succeeded")

\* a step of a pull: its invocation, or any step while its loop runs
InPull == pull.pc = "run" \/ (nops' = nops + 1 /\ last'.op = "pull")

\* a step of a push: its invocation, or any step until it has ended
InPush == push.pc = "loop" \/ (nops' = nops + 1 /\ last'.op = "push")

\* a row but for the three columns that push writes
SyncFree(r) == [r EXCEPT !.exp_article_id = Null, !.status = Null,
                         !.modified_timestamp = Null]

\* the rows of a related table that belong to another page than id
OfOthers(rows, id) == SelectSeq(rows, LAMBDA r : r.pageId # id)

\* C36: frame of pull and push: a pull of identifier i into environment E
\* changes only row i of E's main table and the related rows of E with
\* pageId = i; a push of E changes only exp_article_id, status and
\* modified_timestamp of rows of E's main table; neither changes the tables of
\* another environment, the staging table (no step creates or drops it), the
\* RunLog, or any related row of another pageId.
C36_Frame ==
    [][/\ InPull =>
            /\ <<lastRunTable, schema, runlog>>' = <<lastRunTable, schema, runlog>>
            /\ \A x \in Envs \ {pull'.env} : main'[x] = main[x] /\ rel'[x] = rel[x]
            /\ IF PullStep
               THEN LET e == pull.env
                        i == pull.ids[pull.idx]
                    IN /\ DOMAIN main[e] \subseteq DOMAIN main'[e]
                       /\ DOMAIN main'[e] \subseteq DOMAIN main[e] \cup {i}
                       /\ \A j \in DOMAIN main[e] \ {i} : main'[e][j] = main[e][j]
                       /\ \A k \in Kinds :
                             OfOthers(rel'[e][k], i) = OfOthers(rel[e][k], i)
               ELSE main' = main /\ rel' = rel
       /\ InPush =>
            /\ <<lastRunTable, schema, runlog, rel>>' = <<lastRunTable, schema, runlog, rel>>
            /\ \A x \in Envs \ {push'.env} : main'[x] = main[x]
            /\ DOMAIN main'[push'.env] = DOMAIN main[push'.env]
            /\ \A j \in DOMAIN main[push'.env] :
                  SyncFree(main'[push'.env][j]) = SyncFree(main[push'.env][j])
      ]_vars

\* identifiers 1 and 2 were pulled one after the other, each with two
\* institutions, and a push then created the first remotely and failed on the
\* second: both pages' institutions and the second row are as the pull left them
C36_Witness ==
    /\ push.pc = "done" /\ push.committed
    /\ Len(muts) = 3
    /\ muts[1].article_id = 1 /\ muts[1].result = "ok"
    /\ muts[3].article_id = 2 /\ muts[3].result = "errors"
    /\ main[push.env][1].status = Some("succeeded")
    /\ main[push.env][2].path # main[push.env][1].path
    /\ IsNull(main[push.env][2].exp_article_id)
    /\ IsNull(main[push.env][2].modified_timestamp)
    /\ Len(IdsFor(rel[push.env]["arva_institution"], 1)) = 2
    /\ Len(IdsFor(rel[push.env]["arva_institution"], 2)) = 2

\* C37: tag round trip: for every remote tag list whose titles are strings
\* without ';', the tag list that push sends for a row equals the tag list that
\* pull received for it, including the empty tag list.
C37_TagRoundTrip ==
    (pull.pc \in {"run", "done"} /\ pull.done # << >> /\ LastDone.saved) =>
        LET d == Val(pull.prev)
        IN Variables(Scanned(d.id, main[d.env][d.id])).tags = d.page.tags

(* ================= the push scan over an arbitrary store ================ *)
\* get_last_run_info and fetch_all_records, applied by process_records to
\* stores drawn from a bounded set: the tables exist, last_run holds no row or
\* one, and the dev table holds up to two rows whose modified_timestamp is NULL
\* or a time of the clock (a last_run without rows under existing environment
\* tables is a store that create_db does not leave; the scan is defined on it)
ScanIds == {1, 2}
ScanLogs == {<< >>} \cup {<< InitialRun(t) >> : t \in 0..MaxClock}

\* the states of one row: as pulled, as pulled again, as pushed
ScanRowStates ==
    {[exp |-> Null, status |-> Null, mts |-> Null]}
    \cup {[exp |-> Null, status |-> Null, mts |-> Some(Fmt(t))] : t \in 0..MaxClock}
    \cup {[exp |-> Some(5), status |-> Some("succeeded"), mts |-> Some(Fmt(t))] :
            t \in 0..MaxClock}

ScanRow(i, st) ==
    [InsertPageData(EmptyTable, i, IF i = 1 THEN PageA ELSE PageC, 0)[i]
        EXCEPT !.exp_article_id = st.exp, !.status = st.status,
               !.modified_timestamp = st.mts]

ScanTables ==
    UNION {[ids -> ScanRowStates] : ids \in SUBSET ScanIds}

ScanInit ==
    /\ lastRunTable = TRUE
    /\ schema = TRUE
    /\ runlog \in ScanLogs
    /\ \E t \in ScanTables :
          main = [EmptyMain EXCEPT !["dev"] = [i \in DOMAIN t |-> ScanRow(i, t[i])]]
    /\ rel = EmptyRelTables
    /\ now = MaxClock
    /\ pull = IdlePull
    /\ push = IdlePush
    /\ muts = << >>
    /\ msgs = << >>
    /\ last = NoOp
    /\ nops = 0

ScanNext == \E env \in PushEnvs, cred \in BOOLEAN : PushStart(env, cred)

ScanSpec == ScanInit /\ [][ScanNext]_vars

\* C38: when the RunLog holds no row, the cutoff is null and the push scan
\* selects exactly the rows whose modified_timestamp is NULL: every row with a
\* non-null modified_timestamp is excluded.
C38_EmptyRunLogScan ==
    [][(ScanStep /\ runlog = << >>) =>
        /\ IsNull(GetLastRunInfo(runlog))
        /\ \A i \in DOMAIN main[push'.env] :
              IF IsNull(main[push'.env][i].modified_timestamp)
              THEN Cardinality(CandidatesFor(i)) = 1
              ELSE CandidatesFor(i) = {}
        /\ \A n \in 1..Len(push'.rows) :
              push'.rows[n].article_id \in DOMAIN main[push'.env]
      ]_vars

\* a scan under an empty RunLog has selected one of two rows: the other's
\* modified_timestamp is not NULL
C38_Witness ==
    /\ runlog = << >>
    /\ push.scanned /\ push.pc = "loop"
    /\ Len(push.rows) = 1
    /\ Cardinality(DOMAIN main[push.env]) = 2
    /\ \E i \in DOMAIN main[push.env] :
          /\ ~IsNull(main[push.env][i].modified_timestamp)
          /\ push.rows[1].article_id # i

(* ================== a pull that runs beside a push ===================== *)
\* identifiers a pull running beside the push is invoked with
ConcurrentIds == {1}

\* the connection of process_records has an open transaction, and with it the
\* write lock of the store, from its first UPDATE to its commit; the UPDATE is
\* executed for exactly the records whose follow-up is sent
PushHoldsLock == \E j \in 1..Len(muts) : muts[j].type = "follow_up"

\* insert_arva_records of a get_arva_records that another thread runs on the
\* push's environment while the loop of process_records is between two
\* statements: the engine takes no lock of its own, so the write is committed
\* whenever the push's connection holds no transaction (while it holds one the
\* write ends in "database is locked" and changes nothing).  The push's
\* connection, having no transaction open, reads the committed rows from then
\* on.  The messages of the pull go to its own caller.  One such pull, of a
\* single identifier, runs beside a push.
ConcurrentPull(id, resp) ==
    /\ push.pc = "loop"
    /\ pull.pc = "idle"
    /\ schema
    /\ resp.kind = "ok"
    /\ ~PushHoldsLock
    /\ main' = [main EXCEPT ![push.env] = InsertPageData(@, id, resp.page, now)]
    /\ rel' = [rel EXCEPT ![push.env] = ReplaceRelated(@, id, resp.rel)]
    /\ push' = [push EXCEPT !.tx = main'[push.env]]
    /\ pull' = [pc |-> "beside", env |-> push.env, ids |-> <<id>>, idx |-> 2,
                done |-> << [id |-> id, kind |-> resp.kind, saved |-> TRUE,
                             errors |-> resp.errors] >>,
                prev |-> Some([env |-> push.env, id |-> id, page |-> resp.page,
                               rel |-> resp.rel]),
                twice |-> FALSE]
    /\ UNCHANGED <<lastRunTable, schema, runlog, now, muts, msgs, last, nops>>

ConcurrentNext ==
    \/ Next
    \/ \E id \in ConcurrentIds, a \in PullAnswers :
          a.fault = "none" /\ ConcurrentPull(id, a.resp)

ConcurrentSpec == Init /\ [][ConcurrentNext]_vars

\* no row of the push's environment table has the path and locale that the
\* scan returned for this candidate
Stale(row) ==
    \A i \in DOMAIN push.tx :
        ~(push.tx[i].path = row.path /\ push.tx[i].locale = row.locale)

\* C39: the engine provides no mutual exclusion: a pull and a push that run
\* concurrently on the same environment can interleave so that the pull
\* commits a changed path or locale for row r between the push's candidate
\* scan and its status update; in that execution the page mutation succeeds
\* remotely and is reported, the status update changes no row, and the push
\* goes on to the follow-up and commits.
C39_LostStatusUpdate ==
    [][(StatusUpdateStep /\ Stale(push.rows[push.idx])) =>
        /\ Sent[1].result = "ok"
        /\ Added[1].kind = "record" /\ Added[1].id = Val(Sent[1].page_id)
        /\ \A j \in 1..Len(Added) : Added[j].text # "invalid"
        /\ push'.tx = push.tx
        /\ main' = main
        /\ Sent[2].type = "follow_up"
      ]_vars

\* a push was committed whose create for row r succeeded remotely, after a
\* pull had committed another path for r: r has no exp_article_id and no
\* status, and no row of the table carries the returned id
C39_Witness ==
    /\ push.pc = "done" /\ push.committed
    /\ Len(muts) = 2
    /\ muts[1].type = "create" /\ muts[1].result = "ok"
    /\ muts[2].type = "follow_up" /\ muts[2].result = "ok"
    /\ main[push.env][muts[1].article_id].path # muts[1].vars.path
    /\ IsNull(main[push.env][muts[1].article_id].exp_article_id)
    /\ IsNull(main[push.env][muts[1].article_id].status)
    /\ \A i \in DOMAIN main[push.env] :
          main[push.env][i].exp_article_id # muts[1].page_id

==========================================================================
